---- MODULE Spec2Model ----
(***************************************************************************)
(* The Bergson scheduler (src/src/js/scheduler.js) as a state machine.     *)
(*                                                                         *)
(* Time is counted in whole units of half a second, so that the clock      *)
(* times, the time offsets and the repeat intervals that are drawn are all *)
(* exact.  A frequency is given in Hz: 1.0 / freq seconds are 2 / freq     *)
(* units.  Score event specifications are objects of the caller; the       *)
(* model numbers them 1, 2, ... in the order in which they are created.    *)
(* A callback is an opaque function of the caller: each time it is invoked *)
(* it may return at once, or call clear or setTimeScale on the scheduler   *)
(* before it returns.                                                      *)
(***************************************************************************)
EXTENDS Integers, Sequences, FiniteSets, TLC

\* ---------------------------------------------------------------- bounds
MaxSpecs == 2
MaxTime == 3
MaxFires == 3

\* ------------------------------------------------------- values of the code
\* Number.POSITIVE_INFINITY: larger than every time the model reaches.
Infinity == 1000000
\* A field that holds no number (undefined): typeof x !== "number".
Undefined == -1000000
\* model.timeScale of berg.scheduler's defaults.
DefaultTimeScale == 1

SpecIds == 1..MaxSpecs
\* The values setTimeScale is called with.
Scales == {1, 2}
\* The time offsets (time) of the specs, in units.
Offsets == {0, 1, 2}
\* By how many units the clock advances from one tick to the next.
Steps == {1, 2}
\* The arguments <<freq, time, end>> that repeating specs are made of.  freq is
\* in Hz: 2 Hz and 1 Hz are intervals of 1 and 2 units, 0 Hz is an interval of
\* Infinity, -2 Hz is an interval of -1 unit.
RepeatArgs ==
    { <<2, 0, 2>>,                  \* the end falls on an occurrence
      <<1, 0, 1>>,                  \* the end falls between two occurrences
      <<2, 2, 1>>,                  \* the start offset is greater than the end
      <<2, 1, Undefined>>,          \* no end
      <<1, Undefined, Undefined>>,  \* no time, no end
      <<0, 1, Undefined>>,          \* freq is zero
      <<-2, 1, 2>>,                 \* freq is negative
      <<Undefined, 1, 2>> }         \* no freq

VARIABLES
    specs,      \* the fields of every score event specification object
    items,      \* queue.items of the scheduler's priority queue
    timeScale,  \* model.timeScale
    clockTime,  \* clock.time
    pc,         \* "idle", or "tick" while berg.scheduler.tick is draining
    tick,       \* the arguments and the history of the tick call in progress
    calls,      \* history: how often every spec's callback has been invoked
    lastCall,   \* history: the arguments of the callback the latest step invoked
    cleared,    \* history: clear(spec) or clearAll has been called for spec
    last,       \* history: the latest top-level call and how it ended
    held        \* the objects that the caller keeps in hand to schedule again

vars == <<specs, items, timeScale, clockTime, pc, tick, calls, lastCall, cleared, last,
          held>>

\* --------------------------------------------------------------- numbers
IsNumber(x) == x # Undefined

\* IEEE arithmetic saturates: Infinity plus or times a finite value is Infinity.
Float(x) == IF x >= Infinity THEN Infinity ELSE x

\* 1.0 / freq, in units of half a second.
Reciprocal(freq) ==
    IF ~IsNumber(freq) THEN Undefined
    ELSE IF freq = 0 THEN Infinity
    ELSE 2 \div freq

\* ------------------------------------------------------- the event object
Blank ==
    [type |-> "undefined", time |-> Undefined, freq |-> Undefined,
     end |-> Undefined, callback |-> "undefined", interval |-> Undefined,
     scheduledAt |-> Undefined, priority |-> Undefined]

EventSpec(type, time, freq, end, cb) ==
    [Blank EXCEPT !.type = type, !.time = time, !.freq = freq,
                  !.end = end, !.callback = cb]

Created(ss) == {id \in SpecIds : ss[id].type # "undefined"}

\* What a callback does with the scheduler before it returns.
NoOp == [kind |-> "none", id |-> 0, v |-> 0]

Kinds == {"none", "clear", "scale"}

CallbackOps(ids, kinds) ==
    {NoOp}
    \cup {[kind |-> "clear", id |-> i, v |-> 0] : i \in {j \in ids : "clear" \in kinds}}
    \cup {[kind |-> "scale", id |-> 0, v |-> s] : s \in {t \in Scales : "scale" \in kinds}}

NoCall == [now |-> Undefined, arg |-> 0]

\* ------------------------------------------------------ berg.priorityQueue
InQueue(q, id) == \E i \in 1..Len(q) : q[i] = id

push(q, id) == Append(q, id)

remove(q, id) == SelectSeq(q, LAMBDA x : x # id)

\* A queue that hands out its oldest item, whatever the priorities are now.
peek_Oldest(q, ss) == IF q = <<>> THEN {} ELSE {Head(q)}

\* The items that peek may return: those of the least priority.
peek(q, ss) ==
    {q[i] : i \in {j \in 1..Len(q) :
                     \A k \in 1..Len(q) : ss[q[j]].priority <= ss[q[k]].priority}}

\* ------------------------------------------------------------ berg.scheduler
calcPriority(baseTime, timeOffset, scale) == Float(baseTime + (timeOffset * scale))

\* A rescaling that scales the offset the item is due at now, where the code
\* scales the offset the item was submitted with.
scaleEventTimes_ScalesDueTime(q, ss, scale) ==
    [id \in SpecIds |->
        IF InQueue(q, id)
        THEN [ss[id] EXCEPT !.priority =
                calcPriority(ss[id].scheduledAt, ss[id].priority - ss[id].scheduledAt, scale)]
        ELSE ss[id]]

\* A loop that starts at the second item of queue.items.
scaleEventTimes_SkipsFirst(q, ss, scale) ==
    [id \in SpecIds |->
        IF q # <<>> /\ InQueue(Tail(q), id)
        THEN [ss[id] EXCEPT !.priority = calcPriority(ss[id].scheduledAt, ss[id].time, scale)]
        ELSE ss[id]]

scaleEventTimes(q, ss, scale) ==
    [id \in SpecIds |->
        IF InQueue(q, id)
        THEN [ss[id] EXCEPT !.priority = calcPriority(ss[id].scheduledAt, ss[id].time, scale)]
        ELSE ss[id]]

expandRepeatingEventSpec(now, eventSpec) ==
    [eventSpec EXCEPT
        !.time = IF ~IsNumber(@) THEN 0 ELSE @,
        !.interval = Reciprocal(eventSpec.freq),
        !.end = IF ~IsNumber(@) THEN Infinity ELSE Float(@ + now)]

\* A validation that does not look at the callback.
validateEventSpec_NoCallback(eventSpec) ==
    /\ ~(eventSpec.type = "repeat" /\ ~IsNumber(eventSpec.freq))
    /\ IsNumber(eventSpec.time)

\* TRUE when validateEventSpec returns, FALSE when it throws.
validateEventSpec(eventSpec) ==
    /\ eventSpec.callback = "function"
    /\ ~(eventSpec.type = "repeat" /\ ~IsNumber(eventSpec.freq))
    /\ IsNumber(eventSpec.time)

\* A clear that removes every item whose priority equals that of eventSpec.
clear_ByPriority(w, id) ==
    [w EXCEPT !.items = SelectSeq(@, LAMBDA x : w.specs[x].priority # w.specs[id].priority),
              !.cleared[id] = TRUE]

\* The clear invoker: queue.remove(eventSpec).
clear(w, id) ==
    [w EXCEPT !.items = remove(@, id), !.cleared[id] = TRUE]

\* The clearAll invoker: queue.clear().
clearAll(w) ==
    [w EXCEPT !.items = <<>>,
              !.cleared = [id \in SpecIds |-> @[id] \/ id \in Created(w.specs)]]

\* The setTimeScale invoker and the timeScale model listener: a change request
\* that carries the current value changes nothing and notifies no listener.
setTimeScale(w, v) ==
    IF v = w.timeScale THEN w
    ELSE [w EXCEPT !.timeScale = v, !.specs = scaleEventTimes(w.items, @, v)]

\* A call that hands the callback the time the event was due at, not the
\* now of the tick.
callback_PassesPriority(w, id, now, op) ==
    LET w1 == [w EXCEPT !.calls[id] = @ + 1,
                        !.lastCall = [now |-> w.specs[id].priority, arg |-> id]]
    IN  CASE op.kind = "clear" -> clear(w1, op.id)
          [] op.kind = "scale" -> setTimeScale(w1, op.v)
          [] OTHER -> w1

\* scoreEvent.callback(now, scoreEvent), and what the callback does.
callback(w, id, now, op) ==
    LET w1 == [w EXCEPT !.calls[id] = @ + 1,
                        !.lastCall = [now |-> now, arg |-> id]]
    IN  CASE op.kind = "clear" -> clear(w1, op.id)
          [] op.kind = "scale" -> setTimeScale(w1, op.v)
          [] OTHER -> w1

\* A re-arm that also moves the base of the spec to the time it fired at:
\* scheduledAt = now, time = interval.
evaluateScoreEvent_MovesBase(w, id, now, scale, op) ==
    LET w1 == callback(w, id, now, op)
        scoreEvent == w1.specs[id]
    IN  IF scoreEvent.type = "repeat" /\ scoreEvent.end > now
        THEN [w1 EXCEPT !.specs[id].priority = calcPriority(now, scoreEvent.interval, scale),
                        !.specs[id].scheduledAt = now,
                        !.specs[id].time = scoreEvent.interval,
                        !.items = push(@, id)]
        ELSE w1

\* A re-arm test of scoreEvent.end >= now.
evaluateScoreEvent_EndInclusive(w, id, now, scale, op) ==
    LET w1 == callback(w, id, now, op)
        scoreEvent == w1.specs[id]
    IN  IF scoreEvent.type = "repeat" /\ scoreEvent.end >= now
        THEN [w1 EXCEPT !.specs[id].priority = calcPriority(now, scoreEvent.interval, scale),
                        !.items = push(@, id)]
        ELSE w1

evaluateScoreEvent(w, id, now, scale, op) ==
    LET w1 == callback(w, id, now, op)
        scoreEvent == w1.specs[id]
    IN  IF scoreEvent.type = "repeat" /\ scoreEvent.end > now
        THEN [w1 EXCEPT !.specs[id].priority = calcPriority(now, scoreEvent.interval, scale),
                        !.items = push(@, id)]
        ELSE w1

\* A call that queues every valid spec, due or not.
scheduleEvent_AlwaysQueues(w, id, eventSpec, now, op) ==
    LET s1 == IF eventSpec.type = "undefined" THEN [eventSpec EXCEPT !.type = "once"]
              ELSE eventSpec
        s2 == IF s1.type = "repeat" THEN expandRepeatingEventSpec(now, s1) ELSE s1
        s3 == IF ~IsNumber(s2.scheduledAt) THEN [s2 EXCEPT !.scheduledAt = now] ELSE s2
        s4 == [s3 EXCEPT !.priority = calcPriority(now, s3.time, w.timeScale)]
    IN  IF ~validateEventSpec(s3) THEN [threw |-> TRUE, w |-> w]
        ELSE [threw |-> FALSE, w |-> [w EXCEPT !.specs[id] = s4, !.items = push(@, id)]]

\* The result: the scheduler after the call, and whether the call threw.
\* The object of a call that threw is not referenced by the scheduler.
scheduleEvent(w, id, eventSpec, now, op) ==
    LET scale == w.timeScale
        s1 == IF eventSpec.type = "undefined" THEN [eventSpec EXCEPT !.type = "once"]
              ELSE eventSpec
        s2 == IF s1.type = "repeat" THEN expandRepeatingEventSpec(now, s1) ELSE s1
        s3 == IF ~IsNumber(s2.scheduledAt) THEN [s2 EXCEPT !.scheduledAt = now] ELSE s2
        s4 == [s3 EXCEPT !.priority = calcPriority(now, s3.time, scale)]
        w1 == [w EXCEPT !.specs[id] = s4]
    IN  IF ~validateEventSpec(s3) THEN [threw |-> TRUE, w |-> w]
        ELSE IF s4.priority <= now
        THEN [threw |-> FALSE, w |-> evaluateScoreEvent(w1, id, now, scale, op)]
        ELSE [threw |-> FALSE, w |-> [w1 EXCEPT !.items = push(@, id)]]

\* eventSpecs.forEach(scheduleEvent), the objects of the list being id,
\* id + 1, ...: one scheduleEvent after the other; an exception ends the loop
\* and leaves the scheduler as the calls before it have left it.  done counts
\* the calls of scheduleEvent that returned.
RECURSIVE forEach(_, _, _, _, _)
forEach(w, eventSpecs, id, now, ops) ==
    IF eventSpecs = <<>> THEN [threw |-> FALSE, w |-> w, done |-> 0]
    ELSE LET r == scheduleEvent(w, id, Head(eventSpecs), now, Head(ops))
         IN  IF r.threw THEN [threw |-> TRUE, w |-> w, done |-> 0]
             ELSE [forEach(r.w, Tail(eventSpecs), id + 1, now, Tail(ops))
                     EXCEPT !.done = @ + 1]

\* A forEach that undoes the specs it has scheduled when one of them throws.
scheduleEvents_Atomic(w, eventSpecs, id, now, ops) ==
    LET r == forEach(w, eventSpecs, id, now, ops)
    IN  IF r.threw THEN [r EXCEPT !.w = w] ELSE r

\* berg.scheduler.scheduleEvents: the forEach, and nothing around it.
scheduleEvents(w, eventSpecs, id, now, ops) ==
    forEach(w, eventSpecs, id, now, ops)

\* A loop that goes on while next.priority < now.
tickLoop_Strict(q, ss, now, passed) == {next \in peek(q, ss) : ss[next].priority < now}

\* An if in the place of the while: one pass at most.
tickLoop_SinglePass(q, ss, now, passed) ==
    IF passed THEN {} ELSE {next \in peek(q, ss) : ss[next].priority <= now}

\* berg.scheduler.tick: the items the next pass of the loop may pop.  The loop
\* goes on while next && next.priority <= now, whether or not a pass has
\* been made.
tickLoop(q, ss, now, passed) == {next \in peek(q, ss) : ss[next].priority <= now}

\* ------------------------------------------------------------- the state
\* The scheduler as a step finds it.  lastCall holds the arguments of the
\* callback that the step invokes, if it invokes one.
World ==
    [specs |-> specs, items |-> items, timeScale |-> timeScale,
     calls |-> calls, lastCall |-> NoCall, cleared |-> cleared, held |-> held]

\* An object that is neither queued nor the argument of the callback just
\* invoked nor kept by the caller is referenced no more: of such an object
\* the model keeps the type.
Collect(w) ==
    [id \in SpecIds |->
        IF InQueue(w.items, id) \/ w.lastCall.arg = id \/ id \in w.held THEN w.specs[id]
        ELSE [Blank EXCEPT !.type = w.specs[id].type]]

Install(w) ==
    /\ specs' = Collect(w)
    /\ items' = w.items
    /\ timeScale' = w.timeScale
    /\ calls' = w.calls
    /\ lastCall' = w.lastCall
    /\ cleared' = w.cleared
    /\ held' = w.held

NoTick == [scale |-> DefaultTimeScale, again |-> FALSE, reentered |-> FALSE,
           due |-> {}, base |-> [id \in SpecIds |-> 0], lastDue |-> Undefined]

Other(op) == [op |-> op, threw |-> FALSE, invalid |-> FALSE, nonpos |-> FALSE,
              done |-> 0]

Init ==
    /\ specs = [id \in SpecIds |-> Blank]
    /\ items = <<>>
    /\ timeScale = DefaultTimeScale
    /\ clockTime = 0
    /\ pc = "idle"
    /\ tick = NoTick
    /\ calls = [id \in SpecIds |-> 0]
    /\ lastCall = NoCall
    /\ cleared = [id \in SpecIds |-> FALSE]
    /\ last = Other("none")
    /\ held = {}

\* The object the next call creates.
Fresh == Cardinality(Created(specs)) + 1

\* A spec that is to fail validation: its callback is no function, it is a
\* Repeat without a numeric freq, or a Once without a numeric time.
Invalid(eventSpec) ==
    \/ eventSpec.callback # "function"
    \/ eventSpec.type = "repeat" /\ ~IsNumber(eventSpec.freq)
    \/ eventSpec.type # "repeat" /\ ~IsNumber(eventSpec.time)

\* A Repeat whose freq is not a positive number.
NonPositiveFreq(eventSpec) ==
    eventSpec.type = "repeat" /\ (~IsNumber(eventSpec.freq) \/ eventSpec.freq <= 0)

\* The objects the callers make.
OnceSpecs(types) ==
    {EventSpec(type, time, Undefined, Undefined, cb) :
        type \in types, time \in Offsets \cup {Undefined}, cb \in {"function", "undefined"}}

RepeatSpecs ==
    {EventSpec("repeat", a[2], a[1], a[3], cb) :
        a \in RepeatArgs, cb \in {"function", "undefined"}}

\* scheduleEvent(eventSpec, that) from top-level code; the callback acts when
\* the call invokes it.
Submit(eventSpec, kinds) ==
    /\ pc = "idle"
    /\ Fresh \in SpecIds
    /\ LET quiet == scheduleEvent(World, Fresh, eventSpec, clockTime, NoOp)
           ops == IF quiet.w.lastCall = NoCall THEN {NoOp}
                  ELSE CallbackOps(Created(specs) \cup {Fresh}, kinds)
       IN  \E op \in ops :
            LET r == scheduleEvent(World, Fresh, eventSpec, clockTime, op)
            IN  /\ Install(r.w)
                /\ last' = IF r.threw \/ Invalid(eventSpec) \/ NonPositiveFreq(eventSpec)
                           THEN [op |-> "schedule", threw |-> r.threw,
                                 invalid |-> Invalid(eventSpec),
                                 nonpos |-> NonPositiveFreq(eventSpec),
                                 done |-> 0]
                           ELSE Other("none")
    /\ UNCHANGED <<clockTime, pc, tick>>

\* schedule(eventSpec) with one score event specification object.
ScheduleWith(kinds) ==
    \E eventSpec \in OnceSpecs({"undefined", "once"}) \cup RepeatSpecs :
        Submit(eventSpec, kinds)

\* once(time, callback)
OnceWith(kinds) ==
    \E eventSpec \in OnceSpecs({"once"}) : Submit(eventSpec, kinds)

\* repeat(freq, callback, time, end)
RepeatWith(kinds) ==
    \E eventSpec \in RepeatSpecs : Submit(eventSpec, kinds)

\* The score event specifications that lists are made of: a Once that is due
\* at once, a Once that is due later, and one without a callback.
ListSpecs ==
    { EventSpec("once", 0, Undefined, Undefined, "function"),
      EventSpec("once", 1, Undefined, Undefined, "function"),
      EventSpec("once", 1, Undefined, Undefined, "undefined") }

ScoreLists == UNION {[1..n -> ListSpecs] : n \in SpecIds}

\* schedule(eventSpecs) with a list (fluid.isArrayable): scheduleEvents.
ScheduleListWith(kinds) ==
    /\ pc = "idle"
    /\ \E eventSpecs \in ScoreLists :
        /\ Fresh + Len(eventSpecs) - 1 \in SpecIds
        /\ \E ops \in [1..Len(eventSpecs) -> CallbackOps(Created(specs) \cup {Fresh}, kinds)] :
            LET r == scheduleEvents(World, eventSpecs, Fresh, clockTime, ops)
            IN  /\ Install(r.w)
                /\ last' = [op |-> "scheduleEvents", threw |-> r.threw,
                            invalid |-> \E i \in 1..Len(eventSpecs) : Invalid(eventSpecs[i]),
                            nonpos |-> FALSE, done |-> r.done]
    /\ UNCHANGED <<clockTime, pc, tick>>

\* clear(eventSpec) from top-level code.
Clear ==
    /\ pc = "idle"
    /\ \E id \in Created(specs) : Install(clear(World, id))
    /\ last' = Other("none")
    /\ UNCHANGED <<clockTime, pc, tick>>

\* clearAll() from top-level code.
ClearAll ==
    /\ pc = "idle"
    /\ Install(clearAll(World))
    /\ last' = Other("clearAll")
    /\ UNCHANGED <<clockTime, pc, tick>>

\* setTimeScale(value) from top-level code.
SetTimeScale ==
    /\ pc = "idle"
    /\ \E v \in Scales \ {timeScale} : Install(setTimeScale(World, v))
    /\ last' = Other("setTimeScale")
    /\ UNCHANGED <<clockTime, pc, tick>>

\* The tick invoker is entered: its arguments are now and model.timeScale.
Enter(again) ==
    /\ pc' = "tick"
    /\ tick' = [scale |-> timeScale, again |-> again, reentered |-> FALSE,
                due |-> {id \in SpecIds :
                           InQueue(items, id) /\ specs[id].priority <= clockTime'},
                base |-> calls, lastDue |-> Undefined]
    /\ last' = Other("tick")
    /\ Install(World)

\* The clock advances and fires onTick, which calls tick(clock.time).
ClockTickBy(steps) ==
    /\ pc = "idle"
    /\ \E d \in steps :
        /\ clockTime + d <= MaxTime
        /\ clockTime' = clockTime + d
    /\ Enter(FALSE)

\* tick(now) is called again with the now of the tick that has just returned.
TickAgain ==
    /\ pc = "idle"
    /\ last.op = "tick"
    /\ UNCHANGED clockTime
    /\ Enter(TRUE)

\* One pass of the loop of berg.scheduler.tick: pop and evaluate.
TickStepWith(kinds) ==
    /\ pc = "tick"
    /\ \E next \in tickLoop(items, specs, clockTime, lastCall # NoCall),
          op \in CallbackOps(Created(specs), kinds) :
        /\ calls[next] < MaxFires
        /\ Install(evaluateScoreEvent([World EXCEPT !.items = remove(@, next)],
                                      next, clockTime, tick.scale, op))
        /\ tick' = [tick EXCEPT !.reentered = @ \/ op # NoOp,
                                !.lastDue = specs[next].priority]
    /\ UNCHANGED <<clockTime, pc, last>>

\* The loop of berg.scheduler.tick ends: nothing is queued, or nothing is due.
TickReturn ==
    /\ pc = "tick"
    /\ tickLoop(items, specs, clockTime, lastCall # NoCall) = {}
    /\ pc' = "idle"
    /\ tick' = NoTick
    /\ Install(World)
    /\ UNCHANGED <<clockTime, last>>

Schedule == ScheduleWith(Kinds)

Once == OnceWith(Kinds)

Repeat == RepeatWith(Kinds)

ScheduleList == ScheduleListWith(Kinds)

ClockTick == ClockTickBy(Steps)

TickStep == TickStepWith(Kinds)

Next ==
    \/ Schedule
    \/ Once
    \/ Repeat
    \/ ScheduleList
    \/ Clear
    \/ ClearAll
    \/ SetTimeScale
    \/ ClockTick
    \/ TickAgain
    \/ TickStep
    \/ TickReturn

Spec == Init /\ [][Next]_vars

\* The scheduler of a caller that leaves the time scale at its default and
\* of a clock that advances by one unit from each tick to the next.
SteadyKinds == {"none", "clear"}

ScheduleSteady == ScheduleWith(SteadyKinds)

OnceSteady == OnceWith(SteadyKinds)

RepeatSteady == RepeatWith(SteadyKinds)

ClockTickUnit == ClockTickBy({1})

TickStepSteady == TickStepWith(SteadyKinds)

NextSteady ==
    \/ ScheduleSteady
    \/ OnceSteady
    \/ RepeatSteady
    \/ Clear
    \/ ClearAll
    \/ ClockTickUnit
    \/ TickAgain
    \/ TickStepSteady
    \/ TickReturn

SpecSteady == Init /\ [][NextSteady]_vars

\* The scheduler of a caller that clears specs, keeps the objects and hands
\* them to schedule again, every object once.
\* clear(eventSpec) from top-level code; the caller keeps the object.
ClearAndKeep ==
    /\ pc = "idle"
    /\ \E id \in SpecIds :
        /\ InQueue(items, id)
        /\ ~cleared[id]
        /\ Install([clear(World, id) EXCEPT !.held = @ \cup {id}])
    /\ last' = Other("none")
    /\ UNCHANGED <<clockTime, pc, tick>>

\* schedule(eventSpec) with an object that has been scheduled before and is
\* not queued: scheduleEvent finds the fields that the first call has set.
ResubmitWith(kinds) ==
    /\ pc = "idle"
    /\ \E id \in held :
        LET w == [World EXCEPT !.held = @ \ {id}]
            quiet == scheduleEvent(w, id, specs[id], clockTime, NoOp)
            ops == IF quiet.w.lastCall = NoCall THEN {NoOp}
                   ELSE CallbackOps(Created(specs), kinds)
        IN  \E op \in ops :
                Install(scheduleEvent(w, id, specs[id], clockTime, op).w)
    /\ last' = Other("resubmit")
    /\ UNCHANGED <<clockTime, pc, tick>>

Resubmit == ResubmitWith({"none", "clear"})

NextResubmit ==
    \/ OnceSteady
    \/ RepeatSteady
    \/ ClearAndKeep
    \/ Resubmit
    \/ SetTimeScale
    \/ ClockTick
    \/ TickStepSteady
    \/ TickReturn

SpecResubmit == Init /\ [][NextResubmit]_vars

\* ------------------------------------------------------------ the claims
Queued(id) == InQueue(items, id)

QueuedNext(id) == InQueue(items', id)

LoopDone == pc = "tick" /\ tickLoop(items, specs, clockTime, lastCall # NoCall) = {}

\* C1: a Once spec scheduled with offset t at time s under scale k, and not
\* cleared, is invoked exactly once, in the first tick whose now >= s + t*k.
\* While it waits it has not been invoked and is due at scheduledAt + time *
\* timeScale; it leaves the queue only by firing or by a clear; a tick that
\* returns leaves no Once behind that is due; and it is invoked from the queue
\* by a tick whose now has reached its due time, and is not queued again.
C1_OnceState ==
    \A id \in SpecIds : specs[id].type = "once" =>
        /\ calls[id] <= 1
        /\ Queued(id) =>
            /\ calls[id] = 0
            /\ specs[id].priority = specs[id].scheduledAt + specs[id].time * timeScale
        /\ ~Queued(id) => (calls[id] = 1 \/ cleared[id])
        /\ (pc = "idle" /\ last.op = "tick" /\ Queued(id)) => specs[id].priority > clockTime

C1_OnceStep ==
    \A id \in SpecIds : (specs[id].type = "once" /\ calls'[id] # calls[id]) =>
        /\ Queued(id)
        /\ pc = "tick"
        /\ specs[id].priority <= clockTime
        /\ lastCall' = [now |-> clockTime, arg |-> id]
        /\ ~QueuedNext(id)

C1_OnceFiresOnce == []C1_OnceState /\ [][C1_OnceStep]_vars

\* A Once spec with offset 1, due at scheduledAt + 2 under time scale 2, has
\* just been invoked by a tick that came after its due time.
C1_Witness ==
    \E id \in SpecIds :
        /\ pc = "tick"
        /\ specs[id].type = "once"
        /\ lastCall = [now |-> clockTime, arg |-> id]
        /\ calls[id] = 1
        /\ ~cleared[id]
        /\ timeScale = 2
        /\ specs[id].time = 1
        /\ specs[id].priority = specs[id].scheduledAt + 2
        /\ specs[id].priority < clockTime

\* C2: under time scale 1, no callback of a Repeat spec with freq > 0 is
\* invoked at a tick time greater than its absolute end s + e.
C2_NoCallAfterEnd ==
    \A id \in SpecIds :
        (/\ lastCall.arg = id
         /\ specs[id].type = "repeat"
         /\ IsNumber(specs[id].freq)
         /\ specs[id].freq > 0)
        => lastCall.now <= specs[id].end

\* repeat(freq 2, offset 0, end 1 second) scheduled at time 0.
Scenario(id) ==
    /\ specs[id].type = "repeat"
    /\ specs[id].scheduledAt = 0
    /\ specs[id].time = 0
    /\ specs[id].interval = 1
    /\ specs[id].end = 2

\* C3: the end of a Repeat spec is inclusive.  With the clock ticking at every
\* unit: a tick that returns leaves no Repeat behind that is due, so the
\* occurrence on s + e fires; an invocation at now >= end is the last one; an
\* invocation at now < end is followed by the next occurrence; a spec out of
\* the queue is invoked no more.  repeat(2, cb, 0, 1) at time 0 is invoked for
\* now = 0, 0.5 and 1.0 seconds: three times, then it is queued no more.
C3_RepeatState ==
    \A id \in SpecIds :
        (specs[id].type = "repeat" /\ IsNumber(specs[id].freq) /\ specs[id].freq > 0) =>
            /\ (pc = "idle" /\ last.op = "tick" /\ Queued(id)) => specs[id].priority > clockTime
            /\ (lastCall.arg = id /\ lastCall.now >= specs[id].end) => ~Queued(id)
            /\ (lastCall.arg = id /\ lastCall.now < specs[id].end) =>
                    (Queued(id) /\ specs[id].priority = lastCall.now + specs[id].interval)
            /\ Scenario(id) =>
                /\ calls[id] <= 3
                /\ Queued(id) => (calls[id] = specs[id].priority /\ specs[id].priority <= 2)
                /\ lastCall.arg = id => calls[id] = lastCall.now + 1

C3_RepeatStep ==
    \A id \in SpecIds :
        (specs[id].type # "undefined" /\ ~Queued(id)) =>
            (calls'[id] = calls[id] /\ ~QueuedNext(id))

C3_EndIsInclusive == []C3_RepeatState /\ [][C3_RepeatStep]_vars

\* repeat(2, cb, 0, 1) has just been invoked for the third time, by the tick
\* at its end, 1.0 second, and is not queued.
C3_Witness ==
    \E id \in SpecIds :
        /\ pc = "tick"
        /\ clockTime = 2
        /\ Scenario(id)
        /\ lastCall = [now |-> 2, arg |-> id]
        /\ calls[id] = 3
        /\ ~Queued(id)

\* C4: a spec cleared while it is queued is invoked by no later tick, and the
\* clear removes no other spec.  The step that clears spec id (not from its
\* own callback) takes id out of the queue and leaves every other queued spec
\* queued with its priority; a cleared spec that is out of the queue stays
\* out and is invoked no more.
C4_ClearStep ==
    \A id \in SpecIds :
        /\ (cleared[id] /\ ~Queued(id)) =>
                (calls'[id] = calls[id] /\ ~QueuedNext(id))
        /\ (/\ ~cleared[id]
            /\ cleared'[id]
            /\ last'.op # "clearAll"
            /\ calls'[id] = calls[id]) =>
                /\ ~QueuedNext(id)
                /\ \A o \in SpecIds \ {id} :
                    (Queued(o) /\ calls'[o] = calls[o]) =>
                        (QueuedNext(o) /\ specs'[o].priority = specs[o].priority)

C4_ClearCancels == [][C4_ClearStep]_vars

\* Spec id was due in the tick in progress and has been cleared, never
\* invoked, by the callback of another spec, which is queued again with the
\* priority that id had.
C4_Witness ==
    \E id \in SpecIds, o \in SpecIds :
        /\ id # o
        /\ pc = "tick"
        /\ id \in tick.due
        /\ cleared[id]
        /\ calls[id] = 0
        /\ ~Queued(id)
        /\ lastCall.arg = o
        /\ Queued(o)
        /\ ~cleared[o]

\* C5: once clear(spec) has been called, the callback of spec is invoked no
\* more, also when the call is made from inside the callback of spec.
C5_ClearedStaysSilent ==
    [][\A id \in SpecIds : cleared[id] => calls'[id] = calls[id]]_vars

\* C6: a second tick(now) with the same now, right after the first, invokes
\* no callback and leaves the queue as it is.
C6_TickIdempotent ==
    [][tick.again =>
        /\ calls' = calls
        /\ items' = items
        /\ \A id \in SpecIds : Queued(id) => specs'[id] = specs[id]]_vars

\* The second tick is in progress on a queue that holds a spec the first
\* tick has invoked and re-armed.
C6_Witness ==
    /\ pc = "tick"
    /\ tick.again
    /\ \E id \in SpecIds : Queued(id) /\ calls[id] > 0

C7_DrainState ==
    (LoopDone /\ ~tick.reentered) => \A id \in tick.due : calls[id] = tick.base[id] + 1

C7_DrainStep ==
    \A id \in SpecIds : (pc = "tick" /\ calls'[id] # calls[id]) =>
        /\ calls'[id] = calls[id] + 1
        /\ lastCall' = [now |-> clockTime', arg |-> id]

C8_InvalidRejected ==
    [][(last'.op = "schedule" /\ last'.invalid) =>
        /\ last'.threw
        /\ items' = items
        /\ calls' = calls
        /\ lastCall' = NoCall
        /\ \A id \in SpecIds : Queued(id) => specs'[id] = specs[id]]_vars

\* A call with an invalid spec has thrown while a spec was queued.
C8_Witness ==
    /\ last.op = "schedule"
    /\ last.invalid
    /\ last.threw
    /\ items # <<>>

\* C9: scheduling a Repeat spec whose freq is not a positive number throws.
C9_NonPositiveFreqRejected ==
    (last.op = "schedule" /\ last.nonpos) => last.threw

\* C10: setTimeScale(v) from top-level code, before any callback has been
\* invoked, leaves every queued spec queued with priority scheduledAt + time *
\* v and invokes no callback; and a tick invokes only specs whose priority is
\* <= now.
C10_RescaleStep ==
    /\ (last'.op = "setTimeScale" /\ \A id \in SpecIds : calls[id] = 0) =>
        /\ calls' = calls
        /\ lastCall' = NoCall
        /\ items' = items
        /\ \A id \in SpecIds : Queued(id) =>
            specs'[id].priority = specs[id].scheduledAt + specs[id].time * timeScale'
    /\ \A id \in SpecIds : (Queued(id) /\ calls'[id] # calls[id]) =>
            specs[id].priority <= clockTime'

C10_RescaleSetsDueTimes == [][C10_RescaleStep]_vars

\* setTimeScale(2) has just been called, after the clock has advanced, on a
\* queue of a Once spec and a Repeat spec that have not fired.
C10_Witness ==
    /\ last.op = "setTimeScale"
    /\ timeScale = 2
    /\ clockTime > 0
    /\ \A id \in SpecIds : calls[id] = 0
    /\ \E id \in SpecIds, o \in SpecIds :
        /\ Queued(id) /\ specs[id].type = "once" /\ specs[id].time = 1
        /\ specs[id].priority = specs[id].scheduledAt + 2
        /\ Queued(o) /\ specs[o].type = "repeat"
        /\ specs[o].priority = specs[o].scheduledAt + 2 * specs[o].time

\* C11: a Repeat spec that is invoked and queued again is due at the time it
\* was invoked at plus interval times the time scale the scheduler has when
\* the re-arm is computed, also when its callback has just called
\* setTimeScale.
C11_RearmUsesCurrentScale ==
    [][\A id \in SpecIds :
        (/\ calls'[id] # calls[id]
         /\ QueuedNext(id)
         /\ specs'[id].interval < Infinity) =>
            specs'[id].priority =
                lastCall'.now + specs'[id].interval * timeScale']_vars

\* C12: a call of schedule, once or repeat whose spec is due at once (time *
\* timeScale <= 0) invokes the callback exactly once before it returns, with
\* the clock time as now and the spec as argument (of a list of specs, the
\* arguments of the latest invocation are those on record: the clock time
\* and a spec of the list; of one spec, they are the clock time and the
\* spec); a Once spec so invoked is not queued, and a Once spec that has been
\* invoked is never invoked or queued again.
C12_ImmediateStep ==
    \A id \in SpecIds :
        /\ (/\ specs[id].type = "undefined"
            /\ specs'[id].type # "undefined"
            /\ IsNumber(specs'[id].time)
            /\ specs'[id].time * timeScale <= 0) =>
                /\ calls'[id] = 1
                /\ lastCall'.now = clockTime
                /\ lastCall'.arg \in SpecIds
                /\ specs[lastCall'.arg].type = "undefined"
                /\ last'.op # "scheduleEvents" => lastCall'.arg = id
                /\ specs'[id].type = "once" => ~QueuedNext(id)
        /\ (specs[id].type = "once" /\ calls[id] >= 1) =>
                (calls'[id] = calls[id] /\ ~QueuedNext(id))

C12_DueAtOnceIsInvoked == [][C12_ImmediateStep]_vars

\* once(0, cb) has just returned, after the clock has advanced: cb has been
\* invoked with the clock time and the spec is not queued.
C12_Witness ==
    \E id \in SpecIds :
        /\ pc = "idle"
        /\ clockTime > 0
        /\ specs[id].type = "once"
        /\ specs[id].time = 0
        /\ lastCall = [now |-> clockTime, arg |-> id]
        /\ calls[id] = 1
        /\ ~Queued(id)

\* C13: rescaling is idempotent on queued specs that have not fired: in every
\* state, for every v and w, scaleEventTimes with v applied twice gives the
\* priorities that one application gives, and scaleEventTimes with v and
\* then with w gives the priorities that scaleEventTimes with w gives.
C13_RescaleIdempotent ==
    \A v \in Scales, w \in Scales :
        LET once == scaleEventTimes(items, specs, v)
            direct == scaleEventTimes(items, specs, w)
        IN  \A id \in SpecIds : (Queued(id) /\ calls[id] = 0) =>
                /\ scaleEventTimes(items, once, v)[id].priority = once[id].priority
                /\ scaleEventTimes(items, once, w)[id].priority = direct[id].priority

\* setTimeScale(1) has just been called, after an earlier setTimeScale(2), on
\* a queue of a Once spec and a Repeat spec that have not fired and whose
\* priorities depend on the scale.
C13_Witness ==
    /\ last.op = "setTimeScale"
    /\ timeScale = DefaultTimeScale
    /\ \E id \in SpecIds, o \in SpecIds :
        /\ Queued(id) /\ specs[id].type = "once" /\ calls[id] = 0
        /\ specs[id].time > 0
        /\ specs[id].priority = specs[id].scheduledAt + specs[id].time
        /\ Queued(o) /\ specs[o].type = "repeat" /\ calls[o] = 0
        /\ specs[o].time > 0
        /\ specs[o].priority = specs[o].scheduledAt + specs[o].time

\* C14: schedule(list) is not atomic.  When a spec of the list fails
\* validation, the specs before it are the new objects of the scheduler, each
\* of them queued or already invoked (or cleared by a callback of the call),
\* the specs that were queued before the call are still queued (or cleared
\* by a callback), and the queue has grown by no more than the specs before
\* the failing one: the failing spec is not in it.
C14_ListStep ==
    (last'.op = "scheduleEvents" /\ last'.threw) =>
        /\ Created(specs') = Created(specs) \cup {id \in SpecIds :
                                Fresh <= id /\ id < Fresh + last'.done}
        /\ \A id \in Created(specs') \ Created(specs) :
                \/ QueuedNext(id) /\ calls'[id] = 0
                \/ ~QueuedNext(id) /\ calls'[id] = 1
                \/ cleared'[id]
        /\ \A id \in SpecIds : Queued(id) => (QueuedNext(id) \/ cleared'[id])
        /\ Len(items') <= Len(items) + last'.done

C14_ListNotAtomic == [][C14_ListStep]_vars

\* schedule(list) has thrown at the second spec of the list and the first
\* spec of the list, the newest object, is queued and not cleared.
C14_Witness ==
    /\ last.op = "scheduleEvents"
    /\ last.threw
    /\ last.done = 1
    /\ \E id \in Created(specs) :
        /\ id + 1 = Fresh
        /\ Queued(id)
        /\ ~cleared[id]
        /\ calls[id] = 0

C16_FiresInDueOrder ==
    [][(/\ pc = "tick"
        /\ calls' # calls
        /\ ~tick'.reentered
        /\ IsNumber(tick.lastDue)) => tick.lastDue <= tick'.lastDue]_vars

\* C17: re-arming a Repeat spec and setTimeScale change only its priority.  A
\* Repeat spec that a step finds queued and leaves queued (it stays in the
\* queue, or it is taken, invoked and queued again) keeps its scheduledAt,
\* time, interval and end (and its type and freq).
C17_RearmKeepsFields ==
    [][\A id \in SpecIds :
        (specs[id].type = "repeat" /\ Queued(id) /\ QueuedNext(id)) =>
            specs'[id] = [specs[id] EXCEPT !.priority = specs'[id].priority]]_vars

\* A Repeat spec submitted at time 0 that has fired twice is queued, right
\* after setTimeScale(2), with the fields of its submission: interval 1, end
\* 2, time 0.
C17_Witness ==
    \E id \in SpecIds :
        /\ last.op = "setTimeScale"
        /\ timeScale = 2
        /\ Queued(id)
        /\ specs[id].type = "repeat"
        /\ calls[id] = 2
        /\ specs[id].scheduledAt = 0
        /\ specs[id].time = 0
        /\ specs[id].interval = 1
        /\ specs[id].end = 2
        /\ clockTime = 1

\* C18: every tick terminates when no callback calls the scheduler.  A loop
\* whose callbacks do nothing to the scheduler and that comes back to the
\* queue it has started a pass with goes on for ever; so no pass of such a
\* loop leaves queue.items and the queued specs as it has found them.
C18_TickTerminates ==
    [][(/\ pc = "tick"
        /\ calls' # calls
        /\ ~tick'.reentered) =>
            ~(/\ items' = items
              /\ \A id \in SpecIds : Queued(id) => specs'[id] = specs[id])]_vars

\* C19: a Repeat spec with interval * timeScale > 0 (here: of a freq > 0, so
\* that the interval is positive and finite) is invoked at most once by one
\* tick, and when the loop of tick ends every queued spec is due after now.
C19_OncePerTick ==
    /\ pc = "tick" =>
        \A id \in SpecIds :
            (/\ specs[id].type = "repeat"
             /\ IsNumber(specs[id].freq)
             /\ specs[id].freq > 0
             /\ specs[id].interval * timeScale > 0) =>
                calls[id] <= tick.base[id] + 1
    /\ LoopDone => \A id \in SpecIds : Queued(id) => specs[id].priority > clockTime

\* C20: in every state, every queued spec that has not fired is due at
\* scheduledAt + time * timeScale, also when the object has been scheduled
\* before and is scheduled again at a later clock time.
C20_DueTimeFormula ==
    \A id \in SpecIds :
        (Queued(id) /\ calls[id] = 0) =>
            specs[id].priority = specs[id].scheduledAt + specs[id].time * timeScale

====
